---- MODULE Spec2Model ----
(***************************************************************************)
(* A model of nyaa-go (src/nyaa/nyaa.go): Search, the URL builder, the     *)
(* concurrent search-page parser and the row extractor.                    *)
(*                                                                         *)
(* Text is modelled as a sequence of one-character strings, so that the    *)
(* conversions of the code (TrimPrefix, Atoi, FormatInt, the URL escapes)  *)
(* are computed character by character.  An error value is a sequence of   *)
(* frames [msg, arg], outermost first: errors.Wrap prepends a frame, and   *)
(* the empty sequence is Go's nil error.                                   *)
(***************************************************************************)
EXTENDS Integers, Sequences, FiniteSets, TLC

VARIABLES
    pc,            \* where the caller of Search is
    search,        \* Search's search argument
    parameters,    \* Search's variadic parameters argument
    params,        \* the SearchParameters Search works with
    url,           \* the URL requestHTML built (empty: none built)
    httpRequests,  \* number of http.Get calls issued
    status,        \* the StatusCode of the response (0: no response)
    docParsed,     \* whether goquery.NewDocumentFromReader was called
    doc,           \* the document handed to parseSearchPageHTML: its rows, by name
    medias,        \* parseSearchPageHTML's medias slice
    written,       \* the indexes of medias the worker has assigned
    group,         \* the sync.WaitGroup counter
    waiterPc,      \* the goroutine of lines 102-105
    workerPc,      \* the goroutine of lines 107-117
    workerI,       \* the index selection.Each is at
    workerRes,     \* the worker's (media, err) of the current row
    parseRet,      \* what parseSearchPageHTML returned
    ret,           \* what Search returned
    row,           \* the row handed to parseMediaElement, called on its own
    rowResult      \* what that call returned

vars == <<pc, search, parameters, params, url, httpRequests, status, docParsed, doc, medias, written,
          group, waiterPc, workerPc, workerI, workerRes, parseRet, ret, row, rowResult>>

(***************************************************************************)
(* Text                                                                    *)
(***************************************************************************)
Digits == <<"0", "1", "2", "3", "4", "5", "6", "7", "8", "9">>

IsDigit(c) == \E d \in 1..10 : Digits[d] = c

DigitVal(c) == (CHOOSE d \in 1..10 : Digits[d] = c) - 1

HasPrefix(s, p) == Len(s) >= Len(p) /\ SubSeq(s, 1, Len(p)) = p

\* strings.TrimPrefix
TrimPrefix(s, p) == IF HasPrefix(s, p) THEN SubSeq(s, Len(p) + 1, Len(s)) ELSE s

RECURSIVE DigitsValue(_)
DigitsValue(s) ==
    IF s = << >> THEN 0
    ELSE 10 * DigitsValue(SubSeq(s, 1, Len(s) - 1)) + DigitVal(s[Len(s)])

NoError == << >>

Frame(m, a) == [msg |-> m, arg |-> a]

\* errors.New / errors.Errorf with one %d argument
NewError(m, a) == << Frame(m, a) >>

\* errors.Wrap
Wrap(err, m) == << Frame(m, 0) >> \o err

\* strconv.Atoi: an optional sign, then one or more decimal digits; the
\* value is 0 on a syntax error.  (The texts of the model are short, so the
\* range error of a number beyond the int width does not arise.)
Atoi(s) ==
    LET body == IF s # << >> /\ s[1] \in {"+", "-"} THEN SubSeq(s, 2, Len(s)) ELSE s
        good == body # << >> /\ \A k \in 1..Len(body) : IsDigit(body[k])
        mag  == DigitsValue(body)
    IN  IF ~good
        THEN [val |-> 0, err |-> NewError("strconv.Atoi: invalid syntax", 0)]
        ELSE [val |-> IF s[1] = "-" THEN -mag ELSE mag, err |-> NoError]

RECURSIVE NatDigits(_)
NatDigits(n) ==
    IF n < 10 THEN << Digits[n + 1] >> ELSE NatDigits(n \div 10) \o << Digits[(n % 10) + 1] >>

\* strconv.FormatInt(n, 10)
FormatInt(n) == IF n < 0 THEN << "-" >> \o NatDigits(-n) ELSE NatDigits(n)

(***************************************************************************)
(* Go's uint.  A uint is UintLimbs limbs, each below LimbBase, least            *)
(* significant first, so that the conversion uint(x) of a negative int      *)
(* keeps the width of the machine word (2^64 + x).                          *)
(***************************************************************************)
UintLimbs == 4

LimbBase == 65536

RECURSIVE LimbsOf(_, _)
LimbsOf(x, k) ==
    IF k = 0 THEN << >> ELSE << x % LimbBase >> \o LimbsOf(x \div LimbBase, k - 1)

\* uint(x) of an int x: two's complement at the width of the machine word
ToUint(x) == LimbsOf(x, UintLimbs)

\* the uint u is the number n (u = n as mathematical integers)
UintIs(u, n) == n >= 0 /\ u = LimbsOf(n, UintLimbs)

(***************************************************************************)
(* The document tree, as far as the code reads it.  A node has its         *)
(* attributes in document order and its first and last child; a child is   *)
(* [Type, Data] with Type "none" for a nil child.                          *)
(***************************************************************************)
NoChild == [Type |-> "none", Data |-> << >>]

TextChild(t) == [Type |-> "text", Data |-> t]

ElementChild == [Type |-> "element", Data |-> << "i" >>]

Attribute(k, v) == [Key |-> k, Val |-> v]

Node(attrs, first, last) == [Attr |-> attrs, FirstChild |-> first, LastChild |-> last]

\* getAttributeValueByKey: the value of the first attribute with that key
getAttributeValueByKey(node, key) ==
    LET hits == {k \in 1..Len(node.Attr) : node.Attr[k].Key = key}
    IN  IF hits = {} THEN [val |-> << >>, ok |-> FALSE]
        ELSE [val |-> node.Attr[CHOOSE k \in hits : \A j \in hits : k <= j].Val, ok |-> TRUE]

CategoryPrefix == << "/", "?", "c", "=" >>

ViewPrefix == << "/", "v", "i", "e", "w", "/" >>

hrefToCategory(href) == TrimPrefix(href, CategoryPrefix)

\* hrefToID: uint(id), err with id, err := strconv.Atoi(...)
hrefToID(href) ==
    LET r == Atoi(TrimPrefix(href, ViewPrefix))
    IN  [val |-> ToUint(r.val), err |-> r.err]

\* units.FromHumanSize (github.com/docker/go-units), for the texts of the
\* model: digits, an optional space, an optional unit k, K, m or M (decimal
\* multiples), an optional i or I, an optional b or B.
FromHumanSize(s) ==
    LET DropLast(t, cs) ==
            IF t # << >> /\ t[Len(t)] \in cs THEN SubSeq(t, 1, Len(t) - 1) ELSE t
        s1   == DropLast(s, {"b", "B"})
        s2   == DropLast(s1, {"i", "I"})
        unit == IF s2 # << >> /\ s2[Len(s2)] \in {"k", "K", "m", "M"}
                THEN s2[Len(s2)] ELSE ""
        s3   == DropLast(s2, {"k", "K", "m", "M"})
        s4   == DropLast(s3, {" "})
        good == s4 # << >> /\ \A k \in 1..Len(s4) : IsDigit(s4[k])
        mult == IF unit \in {"k", "K"} THEN 1000
                ELSE IF unit \in {"m", "M"} THEN 1000000 ELSE 1
    IN  IF good THEN [val |-> DigitsValue(s4) * mult, err |-> NoError]
        ELSE [val |-> -1, err |-> NewError("invalid size", 0)]

ZeroMedia ==
    [ID |-> ToUint(0), Name |-> << >>, Category |-> << >>, Torrent |-> << >>,
     Magnet |-> << >>, Size |-> ToUint(0), Seeders |-> ToUint(0), Leechers |-> ToUint(0),
     Downloads |-> ToUint(0), CommentCount |-> ToUint(0), Date |-> 0]

Result(m, e) == [media |-> m, err |-> e]

ExpectedLinks == 4

ExpectedNodes == 8

\* parseMediaElementLinks: the media as the function left it, and its error
parseMediaElementLinks(links, media) ==
    IF Len(links) # ExpectedLinks
    THEN Result(media, NewError("unexpected layout: expected 4 links, got", Len(links)))
    ELSE
    LET h1 == getAttributeValueByKey(links[1], "href")
        m1 == [media EXCEPT !.Category = hrefToCategory(h1.val)]
        h2 == getAttributeValueByKey(links[2], "href")
        id == hrefToID(h2.val)
        m2 == [m1 EXCEPT !.ID = id.val]
        t2 == getAttributeValueByKey(links[2], "title")
        m3 == [m2 EXCEPT !.Name = t2.val]
        h3 == getAttributeValueByKey(links[3], "href")
        m4 == [m3 EXCEPT !.Torrent = h3.val]
        h4 == getAttributeValueByKey(links[4], "href")
        m5 == [m4 EXCEPT !.Magnet = h4.val]
    IN  IF ~h1.ok
        THEN Result(media, NewError("unexpected layout: first link does not have an href", 0))
        ELSE IF ~h2.ok
        THEN Result(m1, NewError("unexpected layout: second link does not have an href", 0))
        ELSE IF id.err # NoError
        THEN Result(m1, Wrap(id.err, "error parsing ID"))
        ELSE IF ~t2.ok
        THEN Result(m2, NewError("unexpected layout: second link does not have a title", 0))
        ELSE IF ~h3.ok
        THEN Result(m3, NewError("unexpected layout: third link does not have an href", 0))
        ELSE IF ~h4.ok
        THEN Result(m4, NewError("unexpected layout: fourth link does not have an href", 0))
        ELSE Result(m5, NoError)

HasTextFirstChild(node) == node.FirstChild.Type = "text"

\* only too few cells refused
TooFewNodes(n) == n < ExpectedNodes

\* line 198
WrongNodeCount(n) == n # ExpectedNodes

\* parseMediaElementTexts
parseMediaElementTexts(nodes, media) ==
    IF WrongNodeCount(Len(nodes))
    THEN Result(media, NewError("unexpected layout: expected 8 nodes, got", Len(nodes)))
    ELSE
    LET size      == FromHumanSize(nodes[4].FirstChild.Data)
        m1        == [media EXCEPT !.Size = ToUint(size.val)]
        seeders   == Atoi(nodes[6].FirstChild.Data)
        m2        == [m1 EXCEPT !.Seeders = ToUint(seeders.val)]
        leechers  == Atoi(nodes[7].FirstChild.Data)
        m3        == [m2 EXCEPT !.Leechers = ToUint(leechers.val)]
        downloads == Atoi(nodes[8].FirstChild.Data)
        m4        == [m3 EXCEPT !.Downloads = ToUint(downloads.val)]
    IN  IF ~HasTextFirstChild(nodes[4])
        THEN Result(media, NewError("unexpected layout: expected node 4 to have a text first child", 0))
        ELSE IF size.err # NoError
        THEN Result(media, Wrap(size.err, "error parsing size"))
        ELSE IF ~HasTextFirstChild(nodes[6])
        THEN Result(m1, NewError("unexpected layout: expected node 6 to have a text first child", 0))
        ELSE IF seeders.err # NoError
        THEN Result(m1, Wrap(seeders.err, "error parsing se"))
        ELSE IF ~HasTextFirstChild(nodes[7])
        THEN Result(m2, NewError("unexpected layout: expected node 7 to have a text first child", 0))
        ELSE IF leechers.err # NoError
        THEN Result(m2, Wrap(leechers.err, "error parsing leechers"))
        ELSE IF ~HasTextFirstChild(nodes[8])
        THEN Result(m3, NewError("unexpected layout: expected node 8 to have a text first child", 0))
        ELSE IF downloads.err # NoError
        THEN Result(m3, Wrap(downloads.err, "error parsing downloads"))
        ELSE Result(m4, NoError)

\* parseMediaElementTimestamp (called with the 8 nodes parseMediaElementTexts accepted)
parseMediaElementTimestamp(nodes, media) ==
    LET timestamp    == getAttributeValueByKey(nodes[5], "data-timestamp")
        timestampInt == Atoi(timestamp.val)
    IN  IF ~timestamp.ok
        THEN Result(media, NewError("unexpected layout: expected node 5 to have a data-timestamp", 0))
        ELSE IF timestampInt.err # NoError
        THEN Result(media, Wrap(timestampInt.err, "error parsing timestamp"))
        ELSE Result([media EXCEPT !.Date = timestampInt.val], NoError)

\* parseMediaElementCommentCount, on the nodes elem.Find(".comments") gives
parseMediaElementCommentCount(nodes, media) ==
    IF Len(nodes) = 0 THEN Result(media, NoError)
    ELSE IF Len(nodes) > 1 THEN Result(media, NewError("found more than one comments element", 0))
    ELSE
    LET textChild    == nodes[1].LastChild
        commentCount == Atoi(textChild.Data)
    IN  IF textChild.Type # "text"
        THEN Result(media, NewError("unexpected layout: expected comments elem to have a text last child", 0))
        ELSE IF commentCount.err # NoError
        THEN Result(media, Wrap(commentCount.err, "error parsing comment count"))
        ELSE Result([media EXCEPT !.CommentCount = ToUint(commentCount.val)], NoError)

\* parseMediaElement.  elem is a row as its three queries see it: links is
\* elem.Find("td a:not(.comments)"), cells is elem.Find("td"), comments is
\* elem.Find(".comments").
parseMediaElement(elem) ==
    LET r1 == parseMediaElementLinks(elem.links, ZeroMedia)
        r2 == parseMediaElementTexts(elem.cells, r1.media)
        r3 == parseMediaElementTimestamp(elem.cells, r2.media)
        r4 == parseMediaElementCommentCount(elem.comments, r3.media)
    IN  IF r1.err # NoError THEN r1
        ELSE IF r2.err # NoError THEN r2
        ELSE IF r3.err # NoError THEN r3
        ELSE r4

(***************************************************************************)
(* Rows.  The texts that are read as numbers come with the integer they    *)
(* denote, written down independently of the parser.                       *)
(***************************************************************************)
NumberTexts ==
    { [text |-> << "3" >>, denotes |-> 3],
      [text |-> << "1", "2" >>, denotes |-> 12],
      [text |-> << "1", "3" >>, denotes |-> 13],
      [text |-> << "0" >>, denotes |-> 0],
      [text |-> << "+", "7" >>, denotes |-> 7],
      [text |-> << "-", "5" >>, denotes |-> -5],
      [text |-> << "4" >>, denotes |-> 4],
      [text |-> << "-", "4" >>, denotes |-> -4],
      [text |-> << "-", "3" >>, denotes |-> -3],
      [text |-> << "1" >>, denotes |-> 1],
      [text |-> << "9" >>, denotes |-> 9] }

IsNumberText(t) == \E n \in NumberTexts : n.text = t

Denotes(t) == (CHOOSE n \in NumberTexts : n.text = t).denotes

Anchor(attrs) == Node(attrs, NoChild, NoChild)

Cell(child) == Node(<< >>, child, child)

CommentsElem(child) == Node(<< Attribute("class", << "c" >>) >>, ElementChild, child)

Title(t) == Attribute("title", t)

Href(t) == Attribute("href", t)

View(t) == Href(ViewPrefix \o t)

\* the attributes of the title/ID anchor
IDAnchors ==
    { << View(<< "1", "2" >>), Title(<< "A" >>) >>,
      << View(<< "1", "3" >>), Title(<< "B" >>) >>,
      << View(<< "-", "5" >>), Title(<< "A" >>) >>,
      << View(<< "0" >>), Title(<< "A" >>) >>,
      << View(<< "+", "7" >>), Title(<< "A" >>) >>,
      << View(<< "x" >>), Title(<< "A" >>) >>,
      << Title(<< "A" >>) >>,
      << View(<< "1", "2" >>) >>,
      << Title(<< "A" >>), Href(<< "1", "2" >>), View(<< "1", "3" >>) >> }

CountChildren ==
    { TextChild(<< "3" >>), TextChild(<< "-", "3" >>), TextChild(<< "x" >>), NoChild, ElementChild }

TimestampAttrs ==
    { << Attribute("data-timestamp", << "1", "2" >>) >>,
      << Attribute("data-timestamp", << "x" >>) >>,
      << Attribute("class", << "c" >>) >> }

CommentsNodes ==
    { << >>,
      << CommentsElem(TextChild(<< "4" >>)) >>,
      << CommentsElem(TextChild(<< "-", "4" >>)) >>,
      << CommentsElem(TextChild(<< "x" >>)) >>,
      << CommentsElem(ElementChild) >>,
      << CommentsElem(TextChild(<< "4" >>)), CommentsElem(TextChild(<< "1" >>)) >> }

\* the four anchors of a well-formed row, and one more
FiveLinks(idAttrs) ==
    << Anchor(<< Href(CategoryPrefix \o << "1", "_", "2" >>) >>),
       Anchor(idAttrs),
       Anchor(<< Href(<< "/", "d" >>) >>),
       Anchor(<< Href(<< "m" >>) >>),
       Anchor(<< Href(<< "/", "u" >>) >>) >>

\* the eight cells of a well-formed row, and one more
NineCells(seeders, tsAttrs) ==
    << Cell(ElementChild), Cell(ElementChild), Cell(ElementChild),
       Cell(TextChild(<< "2", " ", "k", "B" >>)),
       Node(tsAttrs, TextChild(<< "d" >>), TextChild(<< "d" >>)),
       Cell(seeders), Cell(TextChild(<< "1" >>)), Cell(TextChild(<< "9" >>)),
       Cell(NoChild) >>

MkRow(nLinks, idAttrs, nCells, seeders, tsAttrs, comments) ==
    [links    |-> SubSeq(FiveLinks(idAttrs), 1, nLinks),
     cells    |-> SubSeq(NineCells(seeders, tsAttrs), 1, nCells),
     comments |-> comments]

RowInputs ==
    { MkRow(nl, id, nc, se, ts, co) :
        nl \in (ExpectedLinks - 1)..(ExpectedLinks + 1), id \in IDAnchors,
        nc \in (ExpectedNodes - 1)..(ExpectedNodes + 1), se \in CountChildren,
        ts \in TimestampAttrs, co \in CommentsNodes }

EmptyRow == [links |-> << >>, cells |-> << >>, comments |-> << >>]

NotCalled == [called |-> FALSE, media |-> ZeroMedia, err |-> NoError]

(***************************************************************************)
(* The URL builder                                                         *)
(***************************************************************************)
NyaaURL == << "h", "t", "t", "p", "s", ":", "/", "/", "n", "y", "a", "a", ".", "s", "i" >>

LowerLetters == {"a", "b", "c", "d", "e", "h", "i", "n", "o", "p", "r", "s", "t", "u", "y"}

IsUnreserved(c) == IsDigit(c) \/ c \in LowerLetters \/ c \in {"-", "_", ".", "~"}

\* the two hexadecimal digits of the characters the model escapes
HexOf(c) ==
    CASE c = " " -> << "2", "0" >>
      [] c = "&" -> << "2", "6" >>
      [] c = "/" -> << "2", "F" >>
      [] c = "=" -> << "3", "D" >>
      [] c = "?" -> << "3", "F" >>

RECURSIVE EscapeWith(_, _, _)
EscapeWith(s, keep, plus) ==
    IF s = << >> THEN << >>
    ELSE (IF IsUnreserved(s[1]) \/ s[1] \in keep THEN << s[1] >>
          ELSE IF plus /\ s[1] = " " THEN << "+" >>
          ELSE << "%" >> \o HexOf(s[1]))
         \o EscapeWith(Tail(s), keep, plus)

\* url.PathEscape: of the reserved characters a path segment keeps $ & + : = @
PathEscape(s) == EscapeWith(s, {"$", "&", "+", ":", "=", "@"}, FALSE)

\* url.QueryEscape
QueryEscape(s) == EscapeWith(s, {}, TRUE)

\* the first position of character c in s at or after position from, else 0
IndexFrom(s, c, from) ==
    LET hits == {k \in from..Len(s) : s[k] = c}
    IN  IF hits = {} THEN 0 ELSE CHOOSE k \in hits : \A j \in hits : k <= j

\* url.Parse, for an absolute URL scheme://host[/path][?query]
urlParse(s) ==
    LET colon == IndexFrom(s, ":", 1)
        rest  == SubSeq(s, colon + 3, Len(s))
        q     == IndexFrom(rest, "?", 1)
        front == IF q = 0 THEN rest ELSE SubSeq(rest, 1, q - 1)
        slash == IndexFrom(front, "/", 1)
    IN  [Scheme   |-> SubSeq(s, 1, colon - 1),
         Host     |-> IF slash = 0 THEN front ELSE SubSeq(front, 1, slash - 1),
         Path     |-> IF slash = 0 THEN << >> ELSE SubSeq(front, slash, Len(front)),
         RawQuery |-> IF q = 0 THEN << >> ELSE SubSeq(rest, q + 1, Len(rest))]

\* URL.String
URLString(u) ==
    u.Scheme \o << ":", "/", "/" >> \o u.Host \o u.Path
        \o (IF u.RawQuery = << >> THEN << >> ELSE << "?" >> \o u.RawQuery)

\* the keys of the query in the order url.Values.Encode sorts them
SortedKeys == << "c", "f", "o", "q", "s" >>

RECURSIVE EncodeFrom(_, _)
EncodeFrom(query, k) ==
    IF k > Len(SortedKeys) THEN << >>
    ELSE (IF k = 1 THEN << >> ELSE << "&" >>)
         \o << SortedKeys[k], "=" >> \o QueryEscape(query[SortedKeys[k]])
         \o EncodeFrom(query, k + 1)

\* url.Values.Encode
Encode(query) == EncodeFrom(query, 1)

UserSegmentPrefix == << "/", "u", "s", "e", "r", "/" >>

\* urlForParams.  baseURL is built with the user segment and URL is parsed
\* from NyaaURL, as lines 74-79 do.
urlForParams(s, p) ==
    LET baseURL == IF p.User # << >>
                   THEN NyaaURL \o UserSegmentPrefix \o PathEscape(p.User)
                   ELSE NyaaURL
        URL     == urlParse(NyaaURL)
        query   == [k \in {"c", "f", "o", "q", "s"} |->
                       CASE k = "f" -> FormatInt(p.Filter)
                         [] k = "c" -> p.Category
                         [] k = "q" -> s
                         [] k = "s" -> p.SortBy
                         [] k = "o" -> p.SortOrder]
    IN  [url |-> URLString([URL EXCEPT !.RawQuery = Encode(query)]), err |-> NoError]

\* SearchParameters{}
ZeroParameters ==
    [User |-> << >>, Filter |-> 0, Category |-> << >>, SortBy |-> << >>, SortOrder |-> << >>]

\* the first set taken, however many there are
getFirstParameterSet(ps) ==
    [params |-> IF Len(ps) >= 1 THEN ps[1] ELSE ZeroParameters, err |-> NoError]

\* getOneParameterSet
getOneParameterSet(ps) ==
    IF Len(ps) > 1
    THEN [params |-> ZeroParameters, err |-> NewError("only one parameter set accepted", 0)]
    ELSE [params |-> IF Len(ps) = 1 THEN ps[1] ELSE ZeroParameters,
          err |-> NoError]

(***************************************************************************)
(* The inputs of Search                                                    *)
(***************************************************************************)
MaxParameterSets == 2

MaxRows == 3

\* users, each with its percent-encoded form written down by hand
Users ==
    { [name |-> << >>, encoded |-> << >>],
      [name |-> << "b", "o", "b" >>, encoded |-> << "b", "o", "b" >>],
      [name |-> << "a", " ", "/" >>, encoded |-> << "a", "%", "2", "0", "%", "2", "F" >>] }

EncodedUser(name) == (CHOOSE u \in Users : u.name = name).encoded

ParameterSets ==
    { [User |-> u.name, Filter |-> IF u.name = << >> THEN 2 ELSE 0,
       Category |-> << "1", "_", "2" >>, SortBy |-> << "i", "d" >>,
       SortOrder |-> << "d", "e", "s", "c" >>] : u \in Users }

SearchTexts == { << >>, << "a", " ", "&" >> }

\* the encoded query each search text and parameter set must give
ExpectedQuery(s, p) ==
    << "c", "=" >> \o p.Category \o << "&", "f", "=" >>
        \o (IF p.Filter = 2 THEN << "2" >> ELSE << "0" >>)
        \o << "&", "o", "=" >> \o p.SortOrder \o << "&", "q", "=" >>
        \o (IF s = << >> THEN << >> ELSE << "a", "+", "%", "2", "6" >>)
        \o << "&", "s", "=" >> \o p.SortBy

ParameterLists ==
    UNION { [1..n -> ParameterSets] : n \in 0..MaxParameterSets }

Statuses == {199, 200, 299, 300, 404}

RowOK1 ==
    MkRow(ExpectedLinks, << View(<< "1", "2" >>), Title(<< "A" >>) >>, ExpectedNodes,
          TextChild(<< "3" >>), << Attribute("data-timestamp", << "1", "2" >>) >>, << >>)

RowOK2 ==
    MkRow(ExpectedLinks, << View(<< "1", "3" >>), Title(<< "B" >>) >>, ExpectedNodes,
          TextChild(<< "3" >>), << Attribute("data-timestamp", << "1", "2" >>) >>,
          << CommentsElem(TextChild(<< "4" >>)) >>)

RowBadLinks ==
    MkRow(ExpectedLinks - 1, << View(<< "1", "2" >>), Title(<< "A" >>) >>, ExpectedNodes,
          TextChild(<< "3" >>), << Attribute("data-timestamp", << "1", "2" >>) >>, << >>)

RowBadSeeders ==
    MkRow(ExpectedLinks, << View(<< "1", "2" >>), Title(<< "A" >>) >>, ExpectedNodes,
          TextChild(<< "x" >>), << Attribute("data-timestamp", << "1", "2" >>) >>, << >>)

\* the rows a document is made of, by name, and the node each name stands for
PageRows == {"ok1", "ok2", "badLinks", "badSeeders"}

RowNode(name) ==
    CASE name = "ok1" -> RowOK1
      [] name = "ok2" -> RowOK2
      [] name = "badLinks" -> RowBadLinks
      [] name = "badSeeders" -> RowBadSeeders

Documents == UNION { [1..n -> PageRows] : n \in 0..MaxRows }

\* parseMediaElement on each row of PageRows, computed once
Extracted == [name \in PageRows |-> parseMediaElement(RowNode(name))]

NilSlice == [isNil |-> TRUE, items |-> << >>]

Slice(items) == [isNil |-> FALSE, items |-> items]

NotReturned == [returned |-> FALSE, medias |-> NilSlice, err |-> NoError]

Returned(m, e) == [returned |-> TRUE, medias |-> m, err |-> e]

(***************************************************************************)
(* Search and requestHTML: the caller                                      *)
(***************************************************************************)
Init ==
    /\ pc = "start"
    /\ search = << >>
    /\ parameters = << >>
    /\ params = ZeroParameters
    /\ url = << >>
    /\ httpRequests = 0
    /\ status = 0
    /\ docParsed = FALSE
    /\ doc = << >>
    /\ medias = NilSlice
    /\ written = {}
    /\ group = 0
    /\ waiterPc = "unborn"
    /\ workerPc = "unborn"
    /\ workerI = 0
    /\ workerRes = Result(ZeroMedia, NoError)
    /\ parseRet = NotReturned
    /\ ret = NotReturned
    /\ row = EmptyRow
    /\ rowResult = NotCalled

parseVars == <<doc, medias, written, group, waiterPc, workerPc, workerI, workerRes, parseRet>>

rowVars == <<row, rowResult>>

\* Search, lines 18-22: the call and getOneParameterSet
SearchCall(s, ps) ==
    /\ pc = "start"
    /\ search' = s
    /\ parameters' = ps
    /\ LET r == getOneParameterSet(ps)
       IN  IF r.err # NoError
           THEN /\ ret' = Returned(NilSlice, r.err)
                /\ pc' = "returned"
                /\ UNCHANGED params
           ELSE /\ params' = r.params
                /\ pc' = "requestHTML"
                /\ UNCHANGED ret
    /\ UNCHANGED <<url, httpRequests, status, docParsed, parseVars, rowVars>>

\* requestHTML, lines 50-55: the URL is built and the GET request is issued
RequestSend ==
    /\ pc = "requestHTML"
    /\ LET r == urlForParams(search, params)
       IN  IF r.err # NoError
           THEN /\ ret' = Returned(NilSlice,
                              Wrap(Wrap(r.err, "error creating url for search"),
                                   "error getting the nyaa page"))
                /\ pc' = "returned"
                /\ UNCHANGED <<url, httpRequests>>
           ELSE /\ url' = r.url
                /\ httpRequests' = httpRequests + 1
                /\ pc' = "httpGet"
                /\ UNCHANGED ret
    /\ UNCHANGED <<search, parameters, params, status, docParsed, parseVars, rowVars>>

\* http.Get fails, lines 56-58 and 25-27
TransportError ==
    /\ pc = "httpGet"
    /\ ret' = Returned(NilSlice,
                  Wrap(Wrap(NewError("transport", 0), "error requesting results"),
                       "error getting the nyaa page"))
    /\ pc' = "returned"
    /\ UNCHANGED <<search, parameters, params, url, httpRequests, status, docParsed, parseVars, rowVars>>

\* 300 taken for a success
NonOKAbove(code) == code < 200 \/ code > 300

\* line 61
NonOK(code) == code < 200 \/ code >= 300

\* a response with a status outside [200,300), lines 61-63 and 25-27
ResponseNonOK(code) ==
    /\ pc = "httpGet"
    /\ NonOK(code)
    /\ status' = code
    /\ ret' = Returned(NilSlice,
                  Wrap(NewError("non-OK HTTP status code", code), "error getting the nyaa page"))
    /\ pc' = "returned"
    /\ UNCHANGED <<search, parameters, params, url, httpRequests, docParsed, parseVars, rowVars>>

\* a response the document parser cannot read, lines 65-68 and 25-27
ResponseUnreadable(code) ==
    /\ pc = "httpGet"
    /\ ~NonOK(code)
    /\ status' = code
    /\ docParsed' = TRUE
    /\ ret' = Returned(NilSlice,
                  Wrap(Wrap(NewError("read", 0), "error parsing response html"),
                       "error getting the nyaa page"))
    /\ pc' = "returned"
    /\ UNCHANGED <<search, parameters, params, url, httpRequests, parseVars, rowVars>>

\* a response whose body parses to a document with the rows d, lines 65-70
ResponseOK(code, d) ==
    /\ pc = "httpGet"
    /\ ~NonOK(code)
    /\ status' = code
    /\ docParsed' = TRUE
    /\ doc' = d
    /\ pc' = "parseSearchPageHTML"
    /\ UNCHANGED <<search, parameters, params, url, httpRequests, medias, written, group, waiterPc,
                   workerPc, workerI, workerRes, parseRet, ret, rowVars>>

(***************************************************************************)
(* parseSearchPageHTML: the caller, the waiter (lines 102-105) and the     *)
(* worker (lines 107-117).  errChan and doneChan are unbuffered: a send    *)
(* and its receive are one step of both goroutines.                        *)
(***************************************************************************)
\* one more than the rows
GroupAddOneMore(n) == n + 1

\* line 100: the count group.Add is given for n rows
GroupAdd(n) == n

\* lines 96-101
ParseStart ==
    /\ pc = "parseSearchPageHTML"
    /\ medias' = Slice([i \in 1..Len(doc) |-> ZeroMedia])
    /\ written' = {}
    /\ group' = GroupAdd(Len(doc))
    /\ pc' = "goWaiter"
    /\ UNCHANGED <<search, parameters, params, url, httpRequests, status, docParsed, doc, waiterPc,
                   workerPc, workerI, workerRes, parseRet, ret, rowVars>>

\* line 102
GoWaiter ==
    /\ pc = "goWaiter"
    /\ waiterPc' = "wait"
    /\ pc' = "goWorker"
    /\ UNCHANGED <<search, parameters, params, url, httpRequests, status, docParsed, doc, medias, written,
                   group, workerPc, workerI, workerRes, parseRet, ret, rowVars>>

\* line 107
GoWorker ==
    /\ pc = "goWorker"
    /\ workerPc' = "each"
    /\ workerI' = 0
    /\ pc' = "select"
    /\ UNCHANGED <<search, parameters, params, url, httpRequests, status, docParsed, doc, medias, written,
                   group, waiterPc, workerRes, parseRet, ret, rowVars>>

\* line 103: group.Wait() returns when the counter is 0
WaiterWait ==
    /\ waiterPc = "wait"
    /\ group = 0
    /\ waiterPc' = "sendDone"
    /\ UNCHANGED <<pc, search, parameters, params, url, httpRequests, status, docParsed, doc, medias,
                   written, group, workerPc, workerI, workerRes, parseRet, ret, rowVars>>

\* lines 104 and 122-125: the waiter's send meets the caller's select
RecvDone ==
    /\ pc = "select"
    /\ waiterPc = "sendDone"
    /\ waiterPc' = "done"
    /\ parseRet' = Returned(medias, NoError)
    /\ pc' = "parseReturned"
    /\ UNCHANGED <<search, parameters, params, url, httpRequests, status, docParsed, doc, medias, written,
                   group, workerPc, workerI, workerRes, ret, rowVars>>

\* a failed row counted as done, with no send
OnRowErrorSkip == "groupDone"

\* the worker's next step when the extraction of a row failed: the send of line 111
OnRowError == "sendErr"

\* the rows visited from the last to the first
EachIndexReversed(i) == Len(doc) - 1 - i

\* the index of the row selection.Each hands to the callback at step i
EachIndex(i) == i

\* lines 108-110: the callback is entered for row workerI and extracts it
WorkerParse ==
    /\ workerPc = "each"
    /\ workerI < Len(doc)
    /\ LET r == Extracted[doc[EachIndex(workerI) + 1]]
       IN  /\ workerRes' = r
           /\ workerPc' = IF r.err # NoError THEN OnRowError ELSE "store"
    /\ UNCHANGED <<pc, search, parameters, params, url, httpRequests, status, docParsed, doc, medias,
                   written, group, waiterPc, workerI, parseRet, ret, rowVars>>

\* every row assigned to the first slot
SlotOfFirst(i) == 1

\* the slot of medias the callback assigns for row i
SlotOf(i) == i + 1

\* line 114
WorkerStore ==
    /\ workerPc = "store"
    /\ medias' = [medias EXCEPT !.items[SlotOf(EachIndex(workerI))] = workerRes.media]
    /\ written' = written \cup {SlotOf(EachIndex(workerI))}
    /\ workerPc' = "groupDone"
    /\ UNCHANGED <<pc, search, parameters, params, url, httpRequests, status, docParsed, doc, group,
                   waiterPc, workerI, workerRes, parseRet, ret, rowVars>>

\* line 115, and the callback returns
WorkerGroupDone ==
    /\ workerPc = "groupDone"
    /\ group' = group - 1
    /\ workerI' = workerI + 1
    /\ workerPc' = "each"
    /\ UNCHANGED <<pc, search, parameters, params, url, httpRequests, status, docParsed, doc, medias,
                   written, waiterPc, workerRes, parseRet, ret, rowVars>>

\* lines 111-112 and 120-121: the worker's send meets the caller's select;
\* the callback returns and Each goes on with the next row
RecvErr ==
    /\ pc = "select"
    /\ workerPc = "sendErr"
    /\ parseRet' = Returned(NilSlice, Wrap(workerRes.err, "error parsing media element"))
    /\ pc' = "parseReturned"
    /\ workerI' = workerI + 1
    /\ workerPc' = "each"
    /\ UNCHANGED <<search, parameters, params, url, httpRequests, status, docParsed, doc, medias, written,
                   group, waiterPc, workerRes, ret, rowVars>>

\* line 116-117: Each has visited every row and the goroutine ends
WorkerExit ==
    /\ workerPc = "each"
    /\ workerI = Len(doc)
    /\ workerPc' = "done"
    /\ UNCHANGED <<pc, search, parameters, params, url, httpRequests, status, docParsed, doc, medias,
                   written, group, waiterPc, workerI, workerRes, parseRet, ret, rowVars>>

\* Search, lines 29-34
SearchReturn ==
    /\ pc = "parseReturned"
    /\ ret' = IF parseRet.err # NoError
              THEN Returned(NilSlice, Wrap(parseRet.err, "error parsing html"))
              ELSE Returned(parseRet.medias, NoError)
    /\ pc' = "returned"
    /\ UNCHANGED <<search, parameters, params, url, httpRequests, status, docParsed, parseVars, rowVars>>

\* Search up to the call of parseSearchPageHTML, with the network's answers
RequestNext ==
    \/ \E s \in SearchTexts, ps \in ParameterLists : SearchCall(s, ps)
    \/ RequestSend
    \/ TransportError
    \/ \E code \in Statuses : ResponseNonOK(code)
    \/ \E code \in Statuses : ResponseUnreadable(code)
    \/ \E code \in Statuses, d \in Documents : ResponseOK(code, d)

\* the caller from the call of parseSearchPageHTML on
CallerNext ==
    \/ ParseStart
    \/ GoWaiter
    \/ GoWorker
    \/ RecvDone
    \/ RecvErr
    \/ SearchReturn

WaiterNext == WaiterWait

WorkerNext == WorkerParse \/ WorkerStore \/ WorkerGroupDone \/ WorkerExit

Next == RequestNext \/ CallerNext \/ WaiterNext \/ WorkerNext

Spec == Init /\ [][Next]_vars

\* The Go scheduler runs every goroutine that can take a step.  Nothing is
\* assumed of the network: the request may stay without an answer.
FairSpec == Spec /\ WF_vars(CallerNext) /\ WF_vars(WaiterNext) /\ WF_vars(WorkerNext)

(***************************************************************************)
(* parseMediaElement on its own, over the rows of RowInputs                *)
(***************************************************************************)
RowInit ==
    /\ pc = "start"
    /\ search = << >>
    /\ parameters = << >>
    /\ params = ZeroParameters
    /\ url = << >>
    /\ httpRequests = 0
    /\ status = 0
    /\ docParsed = FALSE
    /\ doc = << >>
    /\ medias = NilSlice
    /\ written = {}
    /\ group = 0
    /\ waiterPc = "unborn"
    /\ workerPc = "unborn"
    /\ workerI = 0
    /\ workerRes = Result(ZeroMedia, NoError)
    /\ parseRet = NotReturned
    /\ ret = NotReturned
    /\ row \in RowInputs
    /\ rowResult = NotCalled

ExtractMedia ==
    /\ ~rowResult.called
    /\ rowResult' = [called |-> TRUE] @@ parseMediaElement(row)
    /\ UNCHANGED <<pc, search, parameters, params, url, httpRequests, status, docParsed, parseVars, ret, row>>

RowNext == ExtractMedia

RowSpec == RowInit /\ [][RowNext]_vars

(***************************************************************************)
(* What the rows of PageRows are, written down by hand: whether the row    *)
(* is valid, the record a valid row holds and the error a malformed row    *)
(* gives.                                                                  *)
(***************************************************************************)
HandRecord(id, name, comments) ==
    [ID |-> << id, 0, 0, 0 >>, Name |-> << name >>, Category |-> << "1", "_", "2" >>,
     Torrent |-> << "/", "d" >>, Magnet |-> << "m" >>, Size |-> << 2000, 0, 0, 0 >>,
     Seeders |-> << 3, 0, 0, 0 >>, Leechers |-> << 1, 0, 0, 0 >>,
     Downloads |-> << 9, 0, 0, 0 >>, CommentCount |-> << comments, 0, 0, 0 >>, Date |-> 12]

IsValidRow(r) == r \in {"ok1", "ok2"}

RecordOf(r) == IF r = "ok1" THEN HandRecord(12, "A", 0) ELSE HandRecord(13, "B", 4)

ErrorOf(r) ==
    IF r = "badLinks"
    THEN << [msg |-> "unexpected layout: expected 4 links, got", arg |-> 3] >>
    ELSE << [msg |-> "error parsing se", arg |-> 0],
            [msg |-> "strconv.Atoi: invalid syntax", arg |-> 0] >>

AllValid == \A i \in 1..Len(doc) : IsValidRow(doc[i])

Malformed == {i \in 1..Len(doc) : ~IsValidRow(doc[i])}

FirstMalformed == CHOOSE i \in Malformed : \A j \in Malformed : i <= j

(***************************************************************************)
(* C1: when every row of the document is valid, parseSearchPageHTML        *)
(* returns success with a list of exactly N elements, element i being the  *)
(* record of document row i, and every slot of it has been written when    *)
(* the caller has the result, under every interleaving.                    *)
(***************************************************************************)
C1_OrderedResult ==
    (parseRet.returned /\ AllValid) =>
        /\ parseRet.err = NoError
        /\ ~parseRet.medias.isNil
        /\ Len(parseRet.medias.items) = Len(doc)
        /\ \A i \in 1..Len(doc) : parseRet.medias.items[i] = RecordOf(doc[i])
        /\ written = 1..Len(doc)

C1_Witness ==
    /\ parseRet.returned
    /\ Len(doc) >= 2
    /\ doc[1] = "ok2"
    /\ doc[2] = "ok1"
    /\ AllValid
    /\ parseRet.medias.items[1].ID = << 13, 0, 0, 0 >>

(***************************************************************************)
(* C2: when some row of the document is malformed, parseSearchPageHTML     *)
(* returns an error and a nil list: never success, never a list of some of *)
(* the rows.                                                               *)
(***************************************************************************)
C2_ErrorAndNil ==
    (parseRet.returned /\ Malformed # {}) =>
        /\ parseRet.err # NoError
        /\ parseRet.medias = NilSlice

C2_Witness ==
    /\ parseRet.returned
    /\ Len(doc) >= 3
    /\ Malformed = {2}
    /\ parseRet.err # NoError
    /\ 1 \in written

(***************************************************************************)
(* C3: under fair scheduling parseSearchPageHTML, once called, returns to  *)
(* its caller, whatever the rows are; called on a document with no rows it *)
(* returns success with an empty list.                                     *)
(***************************************************************************)
C3_Returns ==
    /\ (pc = "parseSearchPageHTML") ~> parseRet.returned
    /\ (pc = "parseSearchPageHTML" /\ doc = << >>)
          ~> (parseRet.returned /\ parseRet.err = NoError /\ parseRet.medias = Slice(<< >>))

C3_Witness ==
    /\ parseRet.returned
    /\ doc = << >>
    /\ parseRet.err = NoError
    /\ parseRet.medias = Slice(<< >>)

(***************************************************************************)
(* C4: Search called with more than one parameter set returns an error and *)
(* a nil list, and in that call no URL is built, no request is issued and  *)
(* no later stage runs; called with no parameter set it goes on with the   *)
(* zero SearchParameters, and with one set it goes on with that set.       *)
(***************************************************************************)
C4_OneParameterSet ==
    (pc # "start") =>
        /\ Len(parameters) > 1 =>
              /\ pc = "returned"
              /\ ret.returned /\ ret.err # NoError /\ ret.medias = NilSlice
              /\ url = << >> /\ httpRequests = 0 /\ status = 0 /\ ~docParsed
              /\ ~parseRet.returned /\ waiterPc = "unborn" /\ workerPc = "unborn"
        /\ Len(parameters) = 0 => (params = ZeroParameters /\ (pc = "returned" => httpRequests = 1))
        /\ Len(parameters) = 1 => (params = parameters[1] /\ (pc = "returned" => httpRequests = 1))

C4_Witness ==
    /\ pc = "returned"
    /\ Len(parameters) = 2
    /\ parameters[1] # parameters[2]
    /\ ret.err # NoError

(***************************************************************************)
(* C5: the URL urlForParams returns is the base location, followed by      *)
(* /user/<percent-encoded User> when User is not empty, followed by the    *)
(* query with f, c, q, s and o set from the inputs.                        *)
(***************************************************************************)
C5_UserSegment ==
    (url # << >>) =>
        url = NyaaURL
                \o (IF params.User # << >>
                    THEN UserSegmentPrefix \o EncodedUser(params.User) ELSE << >>)
                \o << "?" >> \o ExpectedQuery(search, params)

(***************************************************************************)
(* C6: a response with a status outside [200,300) makes Search return an   *)
(* error that carries the status code, and a nil list, and neither the     *)
(* document parser nor the row parsing runs; with a status inside          *)
(* [200,300) the body is handed to the document parser.                    *)
(***************************************************************************)
C6_StatusCheck ==
    (status # 0) =>
        /\ (status < 200 \/ status > 299) =>
              /\ pc = "returned"
              /\ ret.returned /\ ret.medias = NilSlice
              /\ \E k \in 1..Len(ret.err) :
                    ret.err[k] = [msg |-> "non-OK HTTP status code", arg |-> status]
              /\ ~docParsed
              /\ ~parseRet.returned /\ medias = NilSlice
              /\ waiterPc = "unborn" /\ workerPc = "unborn"
        /\ (status >= 200 /\ status <= 299) => docParsed

C6_Witness ==
    /\ status = 404
    /\ pc = "returned"
    /\ ret.err # NoError

(***************************************************************************)
(* C7, as claimed: a row with fewer or more than 8 cells always gives the  *)
(* expected-8 cell-count error from parseMediaElement, whatever its        *)
(* anchors and attributes are.                                             *)
(***************************************************************************)
CellCountError(r) ==
    << [msg |-> "unexpected layout: expected 8 nodes, got", arg |-> Len(r.cells)] >>

LinksWellFormed(r) == parseMediaElementLinks(r.links, ZeroMedia).err = NoError

C7_AlwaysCellCountError ==
    (rowResult.called /\ Len(row.cells) # 8) => rowResult.err = CellCountError(row)

(***************************************************************************)
(* C7, amended: a row with fewer or more than 8 cells never gives a        *)
(* record; its error is the expected-8 cell-count error when the link      *)
(* extraction, which runs first, succeeds, and the link extraction's error *)
(* otherwise.                                                              *)
(***************************************************************************)
C7_CellCountAfterLinks ==
    (rowResult.called /\ Len(row.cells) # 8) =>
        /\ rowResult.err # NoError
        /\ LinksWellFormed(row) => rowResult.err = CellCountError(row)
        /\ ~LinksWellFormed(row) =>
              rowResult.err = parseMediaElementLinks(row.links, ZeroMedia).err

C7_Witness ==
    /\ rowResult.called
    /\ Len(row.cells) = 9
    /\ Len(row.links) = 4
    /\ rowResult.err = << [msg |-> "unexpected layout: expected 8 nodes, got", arg |-> 9] >>

(***************************************************************************)
(* C8: every numeric field of a record parseMediaElement accepts is the    *)
(* integer written in the row: ID positive, Seeders and CommentCount not   *)
(* negative; a row that writes a value outside that range is not accepted. *)
(***************************************************************************)
IDText(r) == TrimPrefix(getAttributeValueByKey(r.links[2], "href").val, ViewPrefix)

SeedersText(r) == r.cells[6].FirstChild.Data

C8_NumbersAsWritten ==
    (rowResult.called /\ rowResult.err = NoError) =>
        /\ IsNumberText(IDText(row))
        /\ Denotes(IDText(row)) > 0
        /\ UintIs(rowResult.media.ID, Denotes(IDText(row)))
        /\ IsNumberText(SeedersText(row))
        /\ UintIs(rowResult.media.Seeders, Denotes(SeedersText(row)))
        /\ row.comments = << >> => UintIs(rowResult.media.CommentCount, 0)
        /\ row.comments # << >> =>
              /\ IsNumberText(row.comments[1].LastChild.Data)
              /\ UintIs(rowResult.media.CommentCount, Denotes(row.comments[1].LastChild.Data))

(***************************************************************************)
(* C9: once parseSearchPageHTML has returned, the goroutines it started    *)
(* run to completion: none of them is left blocked on a channel send or on *)
(* the wait group with no step it or the other goroutine can ever take.    *)
(***************************************************************************)
C9_NoGoroutineLeft ==
    (parseRet.returned /\ pc = "returned" /\ ~ENABLED (WaiterNext \/ WorkerNext)) =>
        (waiterPc = "done" /\ workerPc = "done")

(***************************************************************************)
(* C10: the error parseSearchPageHTML returns is the error of the          *)
(* malformed row with the lowest document index, under every interleaving. *)
(***************************************************************************)
C10_FirstRowError ==
    (parseRet.returned /\ parseRet.err # NoError) =>
        /\ Malformed # {}
        /\ parseRet.err = << [msg |-> "error parsing media element", arg |-> 0] >>
                              \o ErrorOf(doc[FirstMalformed])

C10_Witness ==
    /\ parseRet.returned
    /\ Len(doc) >= 3
    /\ doc[2] = "badSeeders"
    /\ doc[3] = "badLinks"
    /\ Malformed = {2, 3}
    /\ parseRet.err # NoError

====
